---- MODULE Spec2Model ----
(***************************************************************************)
(* A model of the qcfractal-server command line (qcfractal_server.py) and  *)
(* of the DQMServer runtime (dqm_server/server.py).                        *)
(*                                                                         *)
(* The command line is modelled one invocation per action: main() is       *)
(* computed by the operators below from the argument dictionary, the line  *)
(* the operator types on stdin and the disk; the action installs the disk  *)
(* it leaves behind and records what the invocation did in `last`.         *)
(***************************************************************************)
EXTENDS Integers, Sequences, FiniteSets, TLC

VARIABLES
    disk,       \* the base directory: does it exist, does its parent, its config file, its data directory
    last,       \* what the most recent invocation was given and what it did
    db,         \* DQMServer.db: the datastore connection handle
    listening,  \* DQMServer.app is bound to DQMServer.port
    ioloop,     \* DQMServer.loop: the flags of the tornado IOLoop
    spc,        \* where the thread that owns the DQMServer is
    portTaken,  \* another listener holds the port
    acquired,   \* the resources in the order __init__ acquired them
    delivered,  \* a stop() or an interrupt was delivered since the loop was entered
    starts,     \* calls of start() so far
    stops,      \* calls of stop() from outside start() so far
    served,     \* requests the listener has handled
    procs,      \* concurrent init invocations: where each is in server_init
    writers     \* the writes of the config file by those invocations, in order

cliVars == <<disk, last>>
srvVars == <<db, listening, ioloop, spc, portTaken, acquired, delivered, starts, stops, served>>
raceVars == <<procs, writers>>
vars == <<disk, last, db, listening, ioloop, spc, portTaken, acquired, delivered, starts, stops,
          served, procs, writers>>

----------------------------------------------------------------------------
(* Settings records: ..config is imported, not part of the sources.        *)

DBFields == {"host", "password"}
ServerFields == {"logfile", "port"}

\* yaml.dump writes the keys of a mapping in sorted order
DBFieldOrder == <<"host", "password">>
ServerFieldOrder == <<"logfile", "port">>

Default(f) ==
    CASE f = "host" -> "localhost"
      [] f = "password" -> "null"
      [] f = "logfile" -> "null"
      [] f = "port" -> "7777"

\* values a field takes in a persisted record
FieldValues(f) ==
    CASE f = "host" -> {"localhost", "dbhost"}
      [] f = "password" -> {"hunter2", "swordfish"}
      [] f = "logfile" -> {"null", "server.log"}
      [] f = "port" -> {"7777", "8888"}

\* values a field is given on the command line
CliValues(f) ==
    CASE f = "host" -> {"otherhost"}
      [] f = "password" -> {"letmein"}
      [] f = "logfile" -> {"cli.log"}
      [] f = "port" -> {"7777", "9999"}

BaseFolder == "base"

EmptyDict == [k \in {} |-> "null"]

\* {**a, **b}: the keys of both, b's value where both have the key
DictUpdate(a, b) ==
    [k \in (DOMAIN a) \cup (DOMAIN b) |-> IF k \in DOMAIN b THEN b[k] ELSE a[k]]

\* FractalConfig(**kwargs): every field, the declared default where kwargs has none;
\* fields_set remembers which ones kwargs gave
FractalConfig(kwargs) ==
    [base_folder |-> IF "base_folder" \in DOMAIN kwargs THEN kwargs.base_folder ELSE BaseFolder,
     database |-> [f \in DBFields |->
                    IF f \in DOMAIN kwargs.database THEN kwargs.database[f] ELSE Default(f)],
     fractal |-> [f \in ServerFields |->
                    IF f \in DOMAIN kwargs.fractal THEN kwargs.fractal[f] ELSE Default(f)],
     fields_set |-> [database |-> (DOMAIN kwargs.database) \cap DBFields,
                     fractal |-> (DOMAIN kwargs.fractal) \cap ServerFields]]

\* config.dict()
ConfigDict(config) ==
    [base_folder |-> config.base_folder,
     database |-> config.database,
     fractal |-> config.fractal]

\* config.dict(skip_defaults=True): only the fields that were given
ConfigDictSkipDefaults(config) ==
    [base_folder |-> config.base_folder,
     database |-> [f \in config.fields_set.database |-> config.database[f]],
     fractal |-> [f \in config.fields_set.fractal |-> config.fractal[f]]]

----------------------------------------------------------------------------
(* The persisted record: yaml text, one line per scalar.                   *)

YamlSection(name, order, d) ==
    LET keys == SelectSeq(order, LAMBDA k : k \in DOMAIN d)
    IN  [i \in 1..Len(keys) |-> <<name, keys[i], d[keys[i]]>>]

\* yaml.dump(d, default_flow_style=False)
YamlDump(d) ==
    <<<<"", "base_folder", d.base_folder>>>>
        \o YamlSection("database", DBFieldOrder, d.database)
        \o YamlSection("fractal", ServerFieldOrder, d.fractal)

YamlKeys(text, section) ==
    {text[i][2] : i \in {j \in 1..Len(text) : text[j][1] = section}}

YamlValue(text, section, key) ==
    LET i == CHOOSE j \in 1..Len(text) : text[j][1] = section /\ text[j][2] = key
    IN  text[i][3]

\* yaml.load(text)
YamlLoad(text) ==
    [base_folder |-> YamlValue(text, "", "base_folder"),
     database |-> [k \in YamlKeys(text, "database") |-> YamlValue(text, "database", k)],
     fractal |-> [k \in YamlKeys(text, "fractal") |-> YamlValue(text, "fractal", k)]]

----------------------------------------------------------------------------
(* The disk under the base directory.                                      *)

NoFile == <<>>

\* the data directory: absent, an empty directory, the cluster of an earlier
\* initialisation, or a cluster created by this initialisation of postgres
DataStates == {"absent", "empty", "old", "fresh"}

\* the dictionaries over the keys D that take each key k to a value of Vals(k)
DictsOver(D, Vals(_)) ==
    {g \in [D -> UNION {Vals(k) : k \in D}] : \A k \in D : g[k] \in Vals(k)}

PartialDicts(fields, Vals(_)) ==
    UNION {DictsOver(D, Vals) : D \in SUBSET fields}

PersistedRecords ==
    {YamlDump([base_folder |-> BaseFolder, database |-> dbd, fractal |-> frd]) :
        dbd \in DictsOver(DBFields, FieldValues),
        frd \in DictsOver(ServerFields, FieldValues)}

\* the disks an invocation can find: no base directory (with or without the
\* directory above it), an empty one, or one that an earlier initialisation
\* left with its record and its cluster
NoDisk == [exists |-> FALSE, parent |-> TRUE, cfg |-> NoFile, data |-> "absent"]

InitialDisks ==
    {NoDisk,
     [NoDisk EXCEPT !.parent = FALSE],
     [NoDisk EXCEPT !.exists = TRUE]}
    \cup {[exists |-> TRUE, parent |-> TRUE, cfg |-> r, data |-> "old"] :
            r \in PersistedRecords}

----------------------------------------------------------------------------
(* How an invocation ends.                                                 *)

Returned == [kind |-> "return", code |-> 0]
SysExit(n) == [kind |-> "SystemExit", code |-> n]
\* an exception nobody catches: the interpreter prints the traceback and the
\* process status is 1
Uncaught(e) == [kind |-> e, code |-> 1]

Outcome(d, e, printed, calls, merged) ==
    [disk |-> d, exit |-> e, printed |-> printed, calls |-> calls, merged |-> merged]

NoConfig == [base_folder |-> "", database |-> EmptyDict, fractal |-> EmptyDict]

----------------------------------------------------------------------------
(* server_init                                                             *)

Sentinel == "REMOVEALLDATA"
Mask == "**************"

\* as if the argument dictionary were bound at module level
ModuleGlobalsWithArgs ==
    {"sys", "argparse", "secrets", "yaml", "shutil", "qcfractal",
     "DatabaseSettings", "FractalConfig", "FractalServerSettings",
     "shutdown_postgres", "initialize_postgres",
     "parse_args", "server_init", "server_config", "main", "args"}

\* the names bound at module level of qcfractal_server.py
ModuleGlobals ==
    {"sys", "argparse", "secrets", "yaml", "shutil", "qcfractal",
     "DatabaseSettings", "FractalConfig", "FractalServerSettings",
     "shutdown_postgres", "initialize_postgres",
     "parse_args", "server_init", "server_config", "main"}

\* a name read in a function is one of its locals or else a module global
Resolves(name, locals) == name \in locals \cup ModuleGlobals

\* config.base_path.mkdir(exist_ok=True)
MkdirBase(d) == [d EXCEPT !.exists = TRUE]

\* as if the directories above were created too
MkdirBaseNeverRaises(d) == FALSE

\* mkdir without parents=True raises FileNotFoundError when the directory
\* above the base directory is missing
MkdirBaseRaises(d) == ~d.exists /\ ~d.parent

\* config.database_path.mkdir(exist_ok=True)
MkdirData(d) == [d EXCEPT !.data = IF @ = "absent" THEN "empty" ELSE @]

\* shutil.rmtree(str(config.database_path), ignore_errors=True)
Rmtree(d) == [d EXCEPT !.data = "absent"]

\* initialize_postgres(config, quiet=False): creates the cluster in an empty
\* data directory, leaves an existing cluster as it is
InitializePostgres(d) == [d EXCEPT !.data = IF @ = "empty" THEN "fresh" ELSE @]

\* config.config_file_path.write_text(text)
WriteConfigFile(d, text) == [d EXCEPT !.cfg = text]

\* print_config = config.dict(); print_config["database"]["password"] = mask
MaskedConfig(config) ==
    [ConfigDict(config) EXCEPT !.database = [@ EXCEPT !["password"] = Mask]]

PrintedRecord(d) == [what |-> "config", text |-> YamlDump(d)]

\* the line read from the operator: input() is commented out and inp is the
\* literal, so `typed` is not read
ConfirmationInput(typed) == Sentinel

\* lines 113-128: print the masked settings, set up postgres, write the record
ServerInitApply(config, d, printed, calls) ==
    LET d1 == MkdirData(d)
        d2 == InitializePostgres(d1)
        d3 == WriteConfigFile(d2, YamlDump(ConfigDict(config)))
    IN  Outcome(d3, Returned,
                printed \o <<PrintedRecord(MaskedConfig(config))>>,
                calls \o <<"initialize_postgres">>, NoConfig)

\* lines 83-104: the guard on an existing configuration file
ServerInitGuard(config, overwrite, typed, d, printed) ==
    IF d.cfg # NoFile
    THEN IF ~overwrite
         THEN Outcome(d, SysExit(2), printed, <<>>, NoConfig)
         ELSE IF ConfirmationInput(typed) = Sentinel
              THEN ServerInitApply(config, Rmtree(d), printed,
                                   <<"shutdown_postgres", "rmtree">>)
              ELSE Outcome(d, SysExit(1), printed, <<>>, NoConfig)
    ELSE ServerInitApply(config, d, printed, <<>>)

\* as if the record were written on entry, before the guard and postgres
ServerInitPersistFirst(config, args, typed, d, printed) ==
    Outcome(WriteConfigFile(MkdirBase(d), YamlDump(ConfigDict(config))),
            Uncaught("NameError"), printed, <<>>, NoConfig)

\* server_init(config): `args` is neither a local of server_init nor a module
\* global, so reading it at line 80 raises NameError
ServerInit(config, args, typed, d, printed) ==
    LET d1 == MkdirBase(d)
    IN  IF MkdirBaseRaises(d)
        THEN Outcome(d, Uncaught("FileNotFoundError"), printed, <<>>, NoConfig)
        ELSE IF ~Resolves("args", {"config", "overwrite", "inp", "print_config"})
        THEN Outcome(d1, Uncaught("NameError"), printed, <<>>, NoConfig)
        ELSE ServerInitGuard(config,
                             IF "overwrite" \in DOMAIN args THEN args.overwrite ELSE FALSE,
                             typed, d1, printed)

----------------------------------------------------------------------------
(* server_config and main                                                  *)

\* server_config(config): prints yaml.dump(config.dict())
ServerConfig(config, d, printed) ==
    Outcome(d, Returned, printed \o <<PrintedRecord(ConfigDict(config))>>, <<>>,
            ConfigDict(config))

\* line 158: file_dict["fractal"] = {**config_dict.pop("fractal"), **file_dict.pop("fractal")}
MergeFractal(config_dict, file_dict) ==
    [file_dict EXCEPT !.fractal = DictUpdate(config_dict.fractal, file_dict.fractal)]

\* lines 154-160: the merged view of the persisted record and the arguments
MergeFiles(config, d) ==
    LET file_dict == ConfigDict(FractalConfig(YamlLoad(d.cfg)))
        config_dict == ConfigDictSkipDefaults(config)
    IN  FractalConfig(MergeFractal(config_dict, file_dict))

\* lines 147, 150: the two checks before the merge
BasePathMissing(d) == ~d.exists
ConfigFileMissing(d) == d.cfg = NoFile

\* as if the base directory were created before the checks, as server_init does
NotInitializedMkdir(d, printed) == Outcome(MkdirBase(d), SysExit(1), printed, <<>>, NoConfig)

\* lines 148-149 and 151-152: report the missing path and sys.exit(1)
NotInitialized(d, printed) == Outcome(d, SysExit(1), printed, <<>>, NoConfig)

\* lines 162-166
Dispatch(cmd, config, args, typed, d, printed) ==
    IF cmd = "init" THEN ServerInit(config, args, typed, d, printed)
    ELSE IF cmd = "config" THEN ServerConfig(config, d, printed)
    ELSE Outcome(d, Uncaught("Exception"), printed, <<>>, ConfigDict(config))

\* main(args): viaParse when args is None and comes from parse_args, which
\* main then prints
Main(args, viaParse, typed, d) ==
    LET printed == IF viaParse THEN <<[what |-> "args", text |-> args]>> ELSE <<>>
        cmd == args.cmd
        config == FractalConfig(args)
    IN  IF cmd # "init"
        THEN IF BasePathMissing(d) \/ ConfigFileMissing(d)
             THEN NotInitialized(d, printed)
             ELSE Dispatch(cmd, MergeFiles(config, d), args, typed, d, printed)
        ELSE Dispatch(cmd, config, args, typed, d, printed)

----------------------------------------------------------------------------
(* The invocations.                                                        *)

\* what parse_args accepts: init takes every field and --overwrite, start takes
\* --port and --logfile, config takes neither
ParsedArgs ==
    {[cmd |-> "init", database |-> dbd, fractal |-> frd, overwrite |-> ow] :
        dbd \in PartialDicts(DBFields, CliValues),
        frd \in PartialDicts(ServerFields, CliValues),
        ow \in BOOLEAN}
    \cup {[cmd |-> "start", database |-> EmptyDict, fractal |-> frd] :
            frd \in PartialDicts({"port", "logfile"}, CliValues)}
    \cup {[cmd |-> "config", database |-> EmptyDict, fractal |-> EmptyDict]}

\* what a caller can hand to main(args)
CallerArgs ==
    ParsedArgs
    \cup {[cmd |-> c, database |-> dbd, fractal |-> frd] :
            c \in {"config", "start"},
            dbd \in PartialDicts(DBFields, CliValues),
            frd \in PartialDicts(ServerFields, CliValues)}

TypedLines == {Sentinel, "no"}

Record(args, viaParse, typed, d, out) ==
    [cmd |-> args.cmd, args |-> args, viaParse |-> viaParse, typed |-> typed,
     pre |-> d, exit |-> out.exit, printed |-> out.printed, calls |-> out.calls,
     merged |-> out.merged]

Invoke(args, viaParse, typed) ==
    LET out == Main(args, viaParse, typed, disk)
    IN  /\ disk' = out.disk
        /\ last' = Record(args, viaParse, typed, disk, out)
        /\ UNCHANGED <<srvVars, raceVars>>

\* qcfractal-server init ...
CliInit ==
    \E args \in ParsedArgs, typed \in TypedLines :
        /\ args.cmd = "init"
        /\ Invoke(args, TRUE, typed)

\* qcfractal-server config ...
CliConfig ==
    \E args \in ParsedArgs :
        /\ args.cmd = "config"
        /\ Invoke(args, TRUE, "no")

\* qcfractal-server start ...
CliStart ==
    \E args \in ParsedArgs :
        /\ args.cmd = "start"
        /\ Invoke(args, TRUE, "no")

\* main(args) called with a dictionary
CallMain ==
    \E args \in CallerArgs, typed \in TypedLines :
        /\ args.cmd = "init" \/ typed = "no"
        /\ Invoke(args, FALSE, typed)

\* qcfractal-server with no subcommand: parse_args prints the help and exits
CliNoCommand ==
    /\ disk' = disk
    /\ last' = [cmd |-> "none", args |-> [cmd |-> "none"], viaParse |-> TRUE,
                typed |-> "no", pre |-> disk, exit |-> SysExit(1),
                printed |-> <<>>, calls |-> <<>>, merged |-> NoConfig]
    /\ UNCHANGED <<srvVars, raceVars>>

\* qcfractal-server with a word that is no subcommand: parser.parse_args()
\* reports the invalid choice and exits with status 2
CliUnknownCommand ==
    /\ disk' = disk
    /\ last' = [cmd |-> "unknown", args |-> [cmd |-> "unknown"], viaParse |-> TRUE,
                typed |-> "no", pre |-> disk, exit |-> SysExit(2),
                printed |-> <<>>, calls |-> <<>>, merged |-> NoConfig]
    /\ UNCHANGED <<srvVars, raceVars>>

NotInvoked ==
    [cmd |-> "", args |-> [cmd |-> ""], viaParse |-> FALSE, typed |-> "no",
     pre |-> NoDisk,
     exit |-> Returned, printed |-> <<>>, calls |-> <<>>, merged |-> NoConfig]

----------------------------------------------------------------------------
(* DQMServer                                                               *)

MaxStarts == 3
MaxStops == 2
MaxRequests == 2

NoLoopFlags == [running |-> FALSE, stopped |-> FALSE]

SrvInit ==
    /\ db = "none"
    /\ listening = FALSE
    /\ ioloop = NoLoopFlags
    /\ spc = "unbuilt"
    /\ portTaken \in BOOLEAN
    /\ acquired = <<>>
    /\ delivered = FALSE
    /\ starts = 0
    /\ stops = 0
    /\ served = 0

\* IOLoop.stop(): clears the running flag and marks the loop stopped
LoopStop(l) == [running |-> FALSE, stopped |-> TRUE]

\* the finally clause of IOLoop.start(): the stopped mark is cleared when the
\* loop is left, by a break or by an exception
LoopLeave(l) == [l EXCEPT !.stopped = FALSE]

\* IOLoop.start() on entry: a loop marked stopped returns at once and clears
\* the mark, otherwise the loop runs
LoopEnter(l) ==
    IF l.stopped THEN [l EXCEPT !.stopped = FALSE] ELSE [l EXCEPT !.running = TRUE]

\* as if the application listened before the datastore socket was made
InitOrderListenFirst == <<"listener", "db">>

\* DQMServer.__init__: the datastore socket (line 46), then the application
\* listens (line 64)
InitOrder == <<"db", "listener">>

\* as if a failed bind were swallowed
ListenNeverRaises(taken) == FALSE

\* self.app.listen(self.port) raises when another listener holds the port, and
\* __init__ lets the error through
ListenRaises(taken) == taken

\* DQMServer(...): the next statement of __init__ that acquires a resource
DQMServerNew ==
    /\ spc = "unbuilt"
    /\ Len(acquired) < Len(InitOrder)
    /\ LET r == InitOrder[Len(acquired) + 1]
           raised == r = "listener" /\ ListenRaises(portTaken)
       IN  /\ db' = IF r = "db" THEN "open" ELSE db
           /\ listening' = IF r = "listener" /\ ~raised THEN TRUE ELSE listening
           /\ acquired' = IF raised THEN acquired ELSE Append(acquired, r)
           /\ spc' = IF raised THEN "failed"
                     ELSE IF Len(acquired) + 1 = Len(InitOrder) THEN "built"
                     ELSE "unbuilt"
    /\ UNCHANGED <<ioloop, portTaken, delivered, starts, stops, served>>
    /\ UNCHANGED <<cliVars, raceVars>>

\* DQMServer.start(), up to self.loop.start()
DQMServerStart ==
    /\ spc \in {"built", "returned"}
    /\ starts < MaxStarts
    /\ starts' = starts + 1
    /\ ioloop' = LoopEnter(ioloop)
    /\ spc' = IF ioloop.stopped THEN "returned" ELSE "in_loop"
    /\ delivered' = FALSE
    /\ UNCHANGED <<db, listening, portTaken, acquired, stops, served>>
    /\ UNCHANGED <<cliVars, raceVars>>

\* one turn of the loop with a request waiting: a handler runs with the
\* shared datastore socket
LoopServe ==
    /\ spc = "in_loop"
    /\ ioloop.running
    /\ listening
    /\ served < MaxRequests
    /\ served' = served + 1
    /\ UNCHANGED <<db, listening, ioloop, spc, portTaken, acquired, delivered, starts, stops>>
    /\ UNCHANGED <<cliVars, raceVars>>

\* the loop finds its running flag cleared: self.loop.start() returns and
\* start() logs and returns
LoopExit ==
    /\ spc = "in_loop"
    /\ ~ioloop.running
    /\ ioloop' = LoopLeave(ioloop)
    /\ spc' = "returned"
    /\ UNCHANGED <<db, listening, portTaken, acquired, delivered, starts, stops, served>>
    /\ UNCHANGED <<cliVars, raceVars>>

\* DQMServer.stop() called from a signal handler, a callback or another thread
DQMServerStop ==
    /\ spc \in {"built", "in_loop", "returned"}
    /\ stops < MaxStops
    /\ stops' = stops + 1
    /\ ioloop' = LoopStop(ioloop)
    /\ delivered' = (delivered \/ spc = "in_loop")
    /\ UNCHANGED <<db, listening, spc, portTaken, acquired, starts, served>>
    /\ UNCHANGED <<cliVars, raceVars>>

\* KeyboardInterrupt raised inside self.loop.start()
KeyboardInterrupt ==
    /\ spc = "in_loop"
    /\ ioloop' = LoopLeave(ioloop)
    /\ spc' = "interrupted"
    /\ delivered' = TRUE
    /\ UNCHANGED <<db, listening, portTaken, acquired, starts, stops, served>>
    /\ UNCHANGED <<cliVars, raceVars>>

\* except KeyboardInterrupt: self.stop(); then start() logs and returns
DQMServerStartExcept ==
    /\ spc = "interrupted"
    /\ ioloop' = LoopStop(ioloop)
    /\ spc' = "returned"
    /\ UNCHANGED <<db, listening, portTaken, acquired, delivered, starts, stops, served>>
    /\ UNCHANGED <<cliVars, raceVars>>

----------------------------------------------------------------------------
(* Concurrent init invocations on one base directory, statement by         *)
(* statement of server_init.                                               *)

NumInits == 2

Procs == 1..NumInits

IdleProc == [pc |-> "idle", args |-> [cmd |-> ""], typed |-> "no"]

RaceInit ==
    /\ procs = [p \in Procs |-> IdleProc]
    /\ writers = <<>>

\* the arguments of the racing invocations
RaceArgs ==
    {[cmd |-> "init", database |-> EmptyDict, fractal |-> frd, overwrite |-> ow] :
        frd \in PartialDicts({"port"}, CliValues), ow \in BOOLEAN}

\* where an invocation has ended
EndPcs == {"done", "exit1", "exit2", "NameError", "FileNotFoundError",
           "DatastoreError", "crashed"}

\* the record the invocation writes
NewRecord(pr) == YamlDump(ConfigDict(FractalConfig(pr.args)))

\* write_text in progress: the file holds the beginning of the new text
PartialText(text) == SubSeq(text, 1, 1)

\* main(): cmd is init, the configuration is built from the arguments alone
InitBegin(p) ==
    /\ procs[p].pc = "idle"
    /\ \E args \in RaceArgs, typed \in TypedLines :
        procs' = [procs EXCEPT ![p] = [pc |-> "mkdir_base", args |-> args, typed |-> typed]]
    /\ UNCHANGED <<disk, last, writers>>
    /\ UNCHANGED srvVars

\* the statement of server_init that follows pc, with the disk it finds
StepOutcome(pr, d, pgOk) ==
    CASE pr.pc = "mkdir_base" ->      \* line 79
            IF MkdirBaseRaises(d)
            THEN [pc |-> "FileNotFoundError", disk |-> d]
            ELSE [pc |-> "read_args", disk |-> MkdirBase(d)]
      [] pr.pc = "read_args" ->       \* line 80
            IF ~Resolves("args", {"config", "overwrite", "inp", "print_config"})
            THEN [pc |-> "NameError", disk |-> d]
            ELSE [pc |-> "exists", disk |-> d]
      [] pr.pc = "exists" ->          \* lines 83-98
            IF d.cfg # NoFile
            THEN IF ~pr.args.overwrite THEN [pc |-> "exit2", disk |-> d]
                 ELSE IF ConfirmationInput(pr.typed) = Sentinel
                      THEN [pc |-> "shutdown", disk |-> d]
                      ELSE [pc |-> "exit1", disk |-> d]
            ELSE [pc |-> "print", disk |-> d]
      [] pr.pc = "shutdown" ->        \* line 100
            [pc |-> "rmtree", disk |-> d]
      [] pr.pc = "rmtree" ->          \* line 101
            [pc |-> "print", disk |-> Rmtree(d)]
      [] pr.pc = "print" ->           \* lines 113-117
            [pc |-> "mkdir_data", disk |-> d]
      [] pr.pc = "mkdir_data" ->      \* line 120
            [pc |-> "initialize", disk |-> MkdirData(d)]
      [] pr.pc = "initialize" ->      \* line 121
            IF pgOk THEN [pc |-> "write_begin", disk |-> InitializePostgres(d)]
            ELSE [pc |-> "DatastoreError", disk |-> d]
      [] pr.pc = "write_begin" ->     \* line 125, the file opened and partly written
            [pc |-> "write_end", disk |-> WriteConfigFile(d, PartialText(NewRecord(pr)))]
      [] pr.pc = "write_end" ->       \* line 125, the text complete
            [pc |-> "done", disk |-> WriteConfigFile(d, NewRecord(pr))]

\* one statement of server_init in invocation p
InitStep(p) ==
    /\ procs[p].pc \notin EndPcs \cup {"idle"}
    /\ \E pgOk \in BOOLEAN :
        LET out == StepOutcome(procs[p], disk, pgOk)
        IN  /\ procs' = [procs EXCEPT ![p].pc = out.pc]
            /\ disk' = out.disk
            /\ writers' = IF procs[p].pc = "write_begin"
                          THEN Append(writers, [p |-> p, replaced |-> disk.cfg # NoFile])
                          ELSE writers
    /\ UNCHANGED last
    /\ UNCHANGED srvVars

\* invocation p is killed where it is
InitCrash(p) ==
    /\ procs[p].pc \notin EndPcs \cup {"idle"}
    /\ procs' = [procs EXCEPT ![p].pc = "crashed"]
    /\ UNCHANGED <<disk, last, writers>>
    /\ UNCHANGED srvVars

\* the disks the racing invocations start from
RaceDisks ==
    {NoDisk, [NoDisk EXCEPT !.exists = TRUE],
     [exists |-> TRUE, parent |-> TRUE, data |-> "old",
      cfg |-> YamlDump(ConfigDict(FractalConfig(
                [cmd |-> "init", database |-> EmptyDict, fractal |-> EmptyDict])))]}

RaceInitState ==
    /\ disk \in RaceDisks
    /\ last = NotInvoked
    /\ SrvInit
    /\ portTaken = FALSE
    /\ RaceInit

RaceNext ==
    \E p \in Procs :
        \/ InitBegin(p)
        \/ InitStep(p)
        \/ InitCrash(p)

RaceSpec == RaceInitState /\ [][RaceNext]_vars

----------------------------------------------------------------------------
Init ==
    /\ disk \in InitialDisks
    /\ last = NotInvoked
    /\ SrvInit
    /\ portTaken = FALSE
    /\ RaceInit

Next ==
    \/ CliInit
    \/ CliConfig
    \/ CliStart
    \/ CallMain
    \/ CliNoCommand
    \/ CliUnknownCommand

Spec == Init /\ [][Next]_vars

ServerInitState ==
    /\ disk = NoDisk
    /\ last = NotInvoked
    /\ SrvInit
    /\ RaceInit

ServerNext ==
    \/ DQMServerNew
    \/ DQMServerStart
    \/ LoopServe
    \/ LoopExit
    \/ DQMServerStop
    \/ KeyboardInterrupt
    \/ DQMServerStartExcept

ServerSpec == ServerInitState /\ [][ServerNext]_vars

----------------------------------------------------------------------------
(* Properties of the command line.                                         *)

OverwriteGiven(inv) == "overwrite" \in DOMAIN inv.args /\ inv.args.overwrite

Called(inv, f) == \E i \in 1..Len(inv.calls) : inv.calls[i] = f

\* the data directory the invocation found, with its cluster, is no longer there
DataRemoved(inv) ==
    \/ Called(inv, "rmtree")
    \/ inv.pre.data # "absent" /\ disk.data # inv.pre.data

\* C1: init --overwrite on a base directory with a persisted record, the
\* operator typing anything but REMOVEALLDATA: shutdown is not invoked, the
\* data directory stays, the record is unchanged and the operation aborts
\* through sys.exit(1).
C1_WrongTokenAborts ==
    (/\ last.cmd = "init"
     /\ OverwriteGiven(last)
     /\ last.pre.cfg # NoFile
     /\ last.typed # Sentinel)
    => /\ ~Called(last, "shutdown_postgres")
       /\ ~DataRemoved(last)
       /\ disk.cfg = last.pre.cfg
       /\ last.exit = SysExit(1)

\* the case in which init may remove the data directory: a persisted record,
\* --overwrite, and the confirmation typed by the operator
GuardedOverwrite(inv) ==
    /\ inv.cmd = "init"
    /\ inv.pre.cfg # NoFile
    /\ OverwriteGiven(inv)
    /\ inv.typed = Sentinel

C3_AlreadyInitializedExit2 ==
    (/\ last.cmd = "init"
     /\ ~OverwriteGiven(last)
     /\ last.pre.cfg # NoFile)
    => /\ last.exit = SysExit(2)
       /\ disk.cfg = last.pre.cfg
       /\ last.calls = <<>>

\* C4: init --overwrite with the confirmation typed, on a base directory with
\* a persisted record: the old data directory contents are gone and the
\* persisted record is the configuration built from this invocation's
\* arguments and the defaults.
C4_OverwriteReplaces ==
    (/\ last.cmd = "init"
     /\ OverwriteGiven(last)
     /\ last.typed = Sentinel
     /\ last.pre.cfg # NoFile)
    => /\ disk.data # "old"
       /\ disk.cfg = YamlDump(ConfigDict(FractalConfig(last.args)))

\* C5: config and start on a base directory with a persisted record: a server
\* setting given in the arguments has the given value in the merged view, one
\* not given has the persisted value, and the datastore settings and the base
\* directory have the persisted values.
C5_MergePrecedence ==
    (/\ last.cmd \in {"config", "start"}
     /\ last.pre.exists
     /\ last.pre.cfg # NoFile)
    => LET file == YamlLoad(last.pre.cfg)
       IN  /\ \A f \in ServerFields :
                last.merged.fractal[f] =
                    IF f \in DOMAIN last.args.fractal
                    THEN last.args.fractal[f] ELSE file.fractal[f]
           /\ \A f \in DBFields : last.merged.database[f] = file.database[f]
           /\ last.merged.base_folder = file.base_folder

NoArgs == [cmd |-> "config", database |-> EmptyDict, fractal |-> EmptyDict]

\* C6: after init on a fresh base directory, the persisted record read back
\* and merged with empty arguments is the configuration init was given, the
\* password as given and not the mask.
C6_RoundTrip ==
    (/\ last.cmd = "init"
     /\ last.pre.cfg = NoFile)
    => /\ disk.cfg # NoFile
       /\ ConfigDict(MergeFiles(FractalConfig(NoArgs), disk))
            = ConfigDict(FractalConfig(last.args))

\* C7: every configuration record an invocation prints carries the mask in
\* its password field.
C7_PrintedSecretMasked ==
    \A i \in 1..Len(last.printed) :
        last.printed[i].what = "config"
        => YamlValue(last.printed[i].text, "database", "password") = Mask

\* C8: config and start on a base directory that does not exist, or that has
\* no config file, end with exit code 1, leave the disk as it was and make no
\* datastore call.
C8_NotInitializedExit1 ==
    (/\ last.cmd \in {"config", "start"}
     /\ (~last.pre.exists \/ last.pre.cfg = NoFile))
    => /\ last.exit = SysExit(1)
       /\ disk = last.pre
       /\ last.calls = <<>>

\* a start has ended on a base directory that exists and holds no config file
C8_Witness ==
    /\ last.cmd = "start"
    /\ last.pre.exists
    /\ last.pre.cfg = NoFile
    /\ last.exit = SysExit(1)

\* C9: a start on a base directory with a persisted record goes on to run the
\* server; it does not end before the listener is started.
C9_StartReachesRunning ==
    (/\ last.cmd = "start"
     /\ last.pre.exists
     /\ last.pre.cfg # NoFile)
    => last.exit.kind \notin {"Exception", "NameError", "SystemExit"}

\* C16: every invocation ends with a documented exit code: 0 on success, 1
\* for missing configuration, a declined confirmation or a missing or unknown
\* operation, 2 only for init on an existing configuration file without
\* --overwrite; none ends in an uncaught exception.
C16_DocumentedExitCodes ==
    last.cmd # ""
    => /\ last.exit \in {Returned, SysExit(1), SysExit(2)}
       /\ last.exit = SysExit(2)
            => /\ last.cmd = "init"
               /\ last.pre.cfg # NoFile
               /\ ~OverwriteGiven(last)
       /\ last.cmd \in {"none", "unknown"} => last.exit = SysExit(1)

\* C17: init persists the record last: a config file changed by an init means
\* that initialize_postgres was called and the invocation returned, and on a
\* base directory without a record an init that does not return leaves no
\* record.
C17_PersistAfterInitialize ==
    last.cmd = "init"
    => /\ disk.cfg # last.pre.cfg
            => /\ Called(last, "initialize_postgres")
               /\ last.exit = Returned
       /\ (last.pre.cfg = NoFile /\ last.exit # Returned) => disk.cfg = NoFile

\* an init on a base directory without a record has ended without returning
C17_Witness ==
    /\ last.cmd = "init"
    /\ last.pre.cfg = NoFile
    /\ last.exit # Returned
    /\ disk.exists

\* C20: nothing exists beneath a base directory that does not exist, and an
\* init whose creation of the base directory fails leaves the disk as it was
\* and makes no datastore call.
C20_BaseDirectoryFirst ==
    /\ (disk.cfg # NoFile \/ disk.data # "absent") => disk.exists
    /\ (last.cmd = "init" /\ ~last.pre.exists /\ ~last.pre.parent)
        => /\ disk = last.pre
           /\ last.calls = <<>>
           /\ last.exit.kind \notin {"return", "SystemExit"}

\* an init has ended on a base directory that could not be created
C20_Witness ==
    /\ last.cmd = "init"
    /\ ~last.pre.exists
    /\ ~last.pre.parent
    /\ last.exit = Uncaught("FileNotFoundError")

----------------------------------------------------------------------------
(* Properties of the server runtime.                                       *)

\* C10: once start() has returned after a stop() or an interrupt delivered to
\* the running loop, the listener and the datastore connection have been
\* released.
C10_StoppedReleasesAll ==
    (spc = "returned" /\ delivered)
    => /\ ~listening
       /\ db = "none"

\* C11: the datastore socket is made before the application listens, and the
\* application listens before the loop runs: whenever the listener is bound,
\* the loop runs or a request has been handled, the datastore socket is set.
C11_DatastoreBeforeListener ==
    /\ listening => db = "open"
    /\ spc \in {"in_loop", "interrupted"}
        => /\ listening
           /\ db = "open"
           /\ acquired = <<"db", "listener">>
    /\ served > 0 => db = "open" /\ listening

\* the loop runs and a request has been handled
C11_Witness ==
    /\ spc = "in_loop"
    /\ ioloop.running
    /\ served > 0

\* C12: the stop() that start() issues after a KeyboardInterrupt has ended the
\* loop changes no state: with no other stop(), a runtime whose start() has
\* returned carries no stop mark, and its start() returned because an
\* interrupt was delivered while the loop ran, not at once.
C12_StopIdempotent ==
    (spc = "returned" /\ stops = 0)
    => /\ ~ioloop.stopped
       /\ delivered

\* C13: with the port held by another listener, construction fails at the
\* bind: the runtime is never built, never listens, never runs the loop and
\* handles no request.
C13_BindFailsFast ==
    portTaken
    => /\ spc \in {"unbuilt", "failed"}
       /\ ~listening
       /\ served = 0
       /\ starts = 0

\* construction has failed at the bind
C13_Witness ==
    /\ portTaken
    /\ spc = "failed"
    /\ acquired = <<"db">>

----------------------------------------------------------------------------
(* Properties of concurrent init invocations.                              *)

Ended(p) == procs[p].pc \in EndPcs

\* the data directory was removed, no cluster was made in it and the record
\* the invocations found is still there
HalfOverwritten ==
    /\ disk.data \in {"absent", "empty"}
    /\ disk.cfg # NoFile
    /\ writers = <<>>

\* C14: the config file holds a complete record or is absent at every moment,
\* whatever statement an init is killed at: never the beginning of a record.
C14_WriteIsAtomic ==
    disk.cfg # NoFile => Len(disk.cfg) = 1 + Cardinality(DBFields) + Cardinality(ServerFields)

\* C15: when initialize_postgres has failed in an init, the datastore is as it
\* was or fully replaced: not removed, uninitialised and with the old record
\* still on disk.
C15_InitializeFailureNotPartial ==
    (\E p \in Procs : procs[p].pc = "DatastoreError") => ~HalfOverwritten

====
